---- MODULE Spec2Model ----
(***************************************************************************)
(* A model of the Worker in src/index.ts: the entry dispatcher `fetch`,   *)
(* the chat handler `handleChatRequest` and the reverse proxy             *)
(* `handleGroqProxy`.  One invocation of the Worker serves one request;   *)
(* nothing is shared between invocations.                                  *)
(*                                                                         *)
(* The external capabilities (env.ASSETS.fetch, env.AI.run, the global    *)
(* fetch) are the environment: each call returns one of a few opaque      *)
(* results or throws, chosen nondeterministically at the call.            *)
(***************************************************************************)
EXTENDS Integers, Sequences, FiniteSets, TLC

\* Bounds of the model.
MaxMsgs == 2        \* longest `messages` array in a request body
MaxHeaders == 2     \* most inbound header entries of a proxied request

\* Program constants.
MODEL_ID == "@cf/meta/llama-3.1-8b-instruct-fp8"
SYSTEM_PROMPT == "You are a helpful, friendly assistant. Provide concise and accurate responses."
GROQ_API_HOST == "api.groq.com"
MaxTokens == 1024

VARIABLES
    request,    \* the inbound Request: method, url, headers, body
    env,        \* the bindings: GROQ_API_KEY (optional string)
    phase,      \* "idle" (no request yet), "pending" (received), "done" (answered)
    response,   \* the Response the invocation resolved to (or the rejection)
    calls,      \* the external capabilities invoked, in order: arguments and outcome
    errors,     \* what console.error was given, in order
    bodyUsed,   \* request.bodyUsed: the request body has been read
    branch      \* the branch of the dispatcher (or the handler called directly)

vars == <<request, env, phase, response, calls, errors, bodyUsed, branch>>

-----------------------------------------------------------------------------
(* Values *)

\* pathname.startsWith(prefix)
StartsWith(s, prefix) ==
    /\ Len(s) >= Len(prefix)
    /\ SubSeq(s, 1, Len(prefix)) = prefix

Roles == {"system", "user", "assistant"}
Contents == {"hello", "be terse"}

\* An element of a parsed `messages` array: a ChatMessage, or JSON null (on
\* which the property access msg.role throws).
NullItem == [t |-> "null", role |-> "", content |-> ""]
ChatMessage == [t : {"message"}, role : Roles, content : Contents]
Items == ChatMessage \cup {NullItem}

SeqUpTo(S, n) == UNION {[1..k -> S] : k \in 0..n}

\* What the bytes of a request body amount to under request.json():
\*   kind  "none"       no body (null stream)
\*         "malformed"  bytes that are not JSON
\*         "json"       a JSON value, of which the model keeps
\*   top   "null" | "scalar" (number, string, boolean, array) | "object"
\*   field the value of its `messages` member:
\*         "absent" | "null" | "scalar" (not an array) | "array"
\*   items the elements of that array
Body(kind, top, field, items) ==
    [kind |-> kind, top |-> top, field |-> field, items |-> items]

NoBody == Body("none", "null", "absent", <<>>)

JsonBodies ==
    {Body("malformed", "null", "absent", <<>>),
     Body("json", "null", "absent", <<>>),
     Body("json", "scalar", "absent", <<>>),
     Body("json", "object", "absent", <<>>),
     Body("json", "object", "null", <<>>),
     Body("json", "object", "scalar", <<>>)}
    \cup {Body("json", "object", "array", s) : s \in SeqUpTo(Items, MaxMsgs)}

Url(protocol, port, pathname, search) ==
    [protocol |-> protocol, hostname |-> "chat.example.com", port |-> port,
     pathname |-> pathname, search |-> search]

Methods == {"GET", "POST", "DELETE"}

\* A GET request carries no body.
BodiesOf(method, bodies) == IF method = "GET" THEN {NoBody} ELSE bodies \cup {NoBody}

Response(status, headers, kind, data) ==
    [status |-> status, headers |-> headers, body |-> [kind |-> kind, data |-> data]]

\* The promise of the handler rejected: an exception escaped to the runtime.
Rejected == Response(0, <<>>, "rejected", "exception")

NoResponse == Response(0, <<>>, "none", "")

\* The outcome of one call of an external capability.
Returns(r) == [threw |-> FALSE, value |-> r]
Throws == [threw |-> TRUE, value |-> NoResponse]

-----------------------------------------------------------------------------
(* Inputs *)

RouterPaths ==
    {"/", "/index.html", "/unknown/path", "/apis/chat", "/api", "/api/",
     "/api/chat", "/api/chat/", "/api/unknown", "/api/openai/v1/models",
     "/openai/v1/chat/completions", "/openai/v1/models", "/openai/v1/"}

DefaultHeaders == << <<"host", "chat.example.com">>, <<"content-type", "application/json">> >>

\* The requests the dispatcher is exercised with.
RouterRequests ==
    {[method |-> m, url |-> Url("https:", "", p, ""), headers |-> DefaultHeaders, body |-> b] :
        <<m, p, b>> \in {x \in Methods \X RouterPaths \X (JsonBodies \cup {NoBody}) :
                            x[3] \in BodiesOf(x[1], JsonBodies)}}

HeaderPool ==
    {<<"host", "chat.example.com">>, <<"authorization", "Bearer caller-token">>,
     <<"content-type", "application/json">>, <<"accept", "text/event-stream">>}

\* Header lists of at most MaxHeaders entries, no name twice.
InboundHeaders ==
    {h \in SeqUpTo(HeaderPool, MaxHeaders) :
        \A i, j \in DOMAIN h : h[i][1] = h[j][1] => i = j}

\* A parsed URL never shows the default port of its own scheme.
InboundOrigins ==
    {<<"https:", "">>, <<"https:", "8443">>, <<"http:", "">>, <<"http:", "8787">>,
     <<"http:", "443">>}

ProxyPaths == {"/openai/v1/chat/completions", "/openai/v1/models"}
Searches == {"", "?stream=true"}
ProxyBodies == {Body("json", "object", "array", <<>>)}

\* The requests the proxy handler is exercised with.
ProxyRequests ==
    {[method |-> x[1], url |-> Url(x[2][1], x[2][2], x[3], x[4]), headers |-> x[5], body |-> x[6]] :
        x \in {y \in Methods \X InboundOrigins \X ProxyPaths \X Searches \X InboundHeaders
                       \X (ProxyBodies \cup {NoBody}) : y[6] \in BodiesOf(y[1], ProxyBodies)}}

\* env.GROQ_API_KEY?: string
Undefined == [defined |-> FALSE, value |-> ""]
String(s) == [defined |-> TRUE, value |-> s]
Envs == {[GROQ_API_KEY |-> k] : k \in {Undefined, String(""), String("gsk_secret")}}

\* What env.ASSETS.fetch, env.AI.run and the global fetch may do.
AssetOutcomes ==
    {Returns(Response(200, << <<"content-type", "text/html">> >>, "asset", "index.html")),
     Returns(Response(404, <<>>, "asset", "")),
     Throws}
AiOutcomes ==
    {[threw |-> FALSE, stream |-> "sse-1"], [threw |-> FALSE, stream |-> "sse-2"],
     [threw |-> TRUE, stream |-> ""]}
NetOutcomes ==
    {Returns(Response(200, << <<"content-type", "application/json">> >>, "upstream", "completion")),
     Returns(Response(401, <<>>, "upstream", "invalid api key")),
     Throws}
\* The statement of handleGroqProxy's try block that throws, if one does
\* before the network call: new URL(...) or new Request(...).
ThrowPoints == {"none", "url", "request"}

-----------------------------------------------------------------------------
(* handleChatRequest *)

\* What a handler call amounts to.
Result(resp, cs, errs, used) ==
    [response |-> resp, calls |-> cs, errors |-> errs, bodyUsed |-> used]

\* One invocation of an external capability.
Call(op, arg, outcome) == [op |-> op, arg |-> arg, result |-> outcome]

\* console.error(message, error)
Logged(message, error) == <<[message |-> message, error |-> error]>>

\* await request.json() throws on an absent body or on bytes that are not JSON.
JsonThrows(body) == body.kind # "json"

\* const { messages = [] } = value: destructuring null throws; a value without
\* a `messages` member (a number, a string, an array, an object lacking it)
\* takes the default []; a member that is null or any other value is kept.
DestructureThrows(body) == body.top = "null"
Messages(body) ==
    IF body.top = "scalar" \/ body.field = "absent"
    THEN [array |-> TRUE, items |-> <<>>]
    ELSE [array |-> body.field = "array", items |-> body.items]

\* messages.some((msg) => msg.role === "system"): left to right, stopping at
\* the first hit; msg.role on a null element throws.
RECURSIVE SomeSystem(_)
SomeSystem(items) ==
    IF items = <<>> THEN "false"
    ELSE IF Head(items).t = "null" THEN "throw"
    ELSE IF Head(items).role = "system" THEN "true"
    ELSE SomeSystem(Tail(items))

SystemMessage == [t |-> "message", role |-> "system", content |-> SYSTEM_PROMPT]

\* Mutant of EnsureSystemPrompt: only the first message is looked at.
EnsureSystemFirstOnly(items) ==
    IF items = <<>> \/ Head(items).role # "system"
    THEN <<SystemMessage>> \o items
    ELSE items

\* if (!messages.some(...)) messages.unshift({role: "system", ...})
EnsureSystemPrompt(items) ==
    IF SomeSystem(items) = "false" THEN <<SystemMessage>> \o items ELSE items

\* The arguments of env.AI.run.
AiInputs(messages) ==
    [model |-> MODEL_ID, messages |-> messages, max_tokens |-> MaxTokens, stream |-> TRUE]

\* Mutant of ChatResponse: the content type without its charset parameter.
ChatResponseNoCharset(stream) ==
    Response(200,
             << <<"content-type", "text/event-stream">>,
                <<"cache-control", "no-cache">>,
                <<"connection", "keep-alive">> >>,
             "stream", stream)

\* new Response(stream, {headers}): status 200 by default.
ChatResponse(stream) ==
    Response(200,
             << <<"content-type", "text/event-stream; charset=utf-8">>,
                <<"cache-control", "no-cache">>,
                <<"connection", "keep-alive">> >>,
             "stream", stream)

\* Mutant of ChatFailure: the error is thrown on instead of answered.
ChatFailureRethrown == Rejected

\* The catch block.
ChatFailure ==
    Response(500, << <<"content-type", "application/json">> >>,
             "text", "{\"error\":\"Failed to process request\"}")

ChatError(error) == Logged("Error processing chat request:", error)

HandleChatRequest(req, ai) ==
    IF JsonThrows(req.body)
    THEN Result(ChatFailure, <<>>, ChatError("SyntaxError: request.json"), TRUE)
    ELSE IF DestructureThrows(req.body)
    THEN Result(ChatFailure, <<>>, ChatError("TypeError: destructure"), TRUE)
    ELSE LET messages == Messages(req.body) IN
         IF ~messages.array
         THEN Result(ChatFailure, <<>>, ChatError("TypeError: messages.some"), TRUE)
         ELSE IF SomeSystem(messages.items) = "throw"
         THEN Result(ChatFailure, <<>>, ChatError("TypeError: msg.role"), TRUE)
         ELSE LET call == Call("AI.run", AiInputs(EnsureSystemPrompt(messages.items)), ai) IN
              IF ai.threw
              THEN Result(ChatFailure, <<call>>, ChatError("AI.run"), TRUE)
              ELSE Result(ChatResponse(ai.stream), <<call>>, <<>>, TRUE)

-----------------------------------------------------------------------------
(* handleGroqProxy *)

\* The URL setters.  The protocol setter drops a port that is the default
\* port of the new scheme; setting the port to "" clears it.
DefaultPort(protocol) == IF protocol = "https:" THEN "443" ELSE "80"
SetHostname(u, hostname) == [u EXCEPT !.hostname = hostname]
SetProtocol(u, protocol) ==
    [u EXCEPT !.protocol = protocol,
              !.port = IF @ = DefaultPort(protocol) THEN "" ELSE @]
SetPort(u, port) == [u EXCEPT !.port = port]

\* newUrl: the inbound URL with hostname, protocol and port rewritten.
NewUrl(u) == SetPort(SetProtocol(SetHostname(u, GROQ_API_HOST), "https:"), "")

\* Headers: a list of <<name, value>> entries, names in lower case.
HeadersHas(h, name) == \E i \in DOMAIN h : h[i][1] = name
HeadersCount(h, name) == Cardinality({i \in DOMAIN h : h[i][1] = name})
HeadersGet(h, name) == h[CHOOSE i \in DOMAIN h : h[i][1] = name][2]
HeadersDelete(h, name) == SelectSeq(h, LAMBDA e : e[1] # name)

\* Mutant of HeadersSet: headers.append in place of headers.set.
HeadersAppend(h, name, value) == Append(h, <<name, value>>)

\* headers.set(name, value): the first entry of that name takes the value and
\* the others are removed; with no such entry, one is appended.
HeadersSet(h, name, value) ==
    IF HeadersHas(h, name)
    THEN LET first == CHOOSE i \in DOMAIN h :
                          h[i][1] = name /\ \A j \in 1..(i - 1) : h[j][1] # name
         IN  SubSeq(h, 1, first - 1) \o << <<name, value>> >>
                 \o HeadersDelete(SubSeq(h, first + 1, Len(h)), name)
    ELSE Append(h, <<name, value>>)

\* if (env.GROQ_API_KEY): undefined and the empty string are falsy.
Truthy(k) == k.defined /\ k.value # ""

\* Mutant of ProxyHeaders: authorization set whether or not a key is configured.
ProxyHeadersAlwaysAuth(h, e) ==
    HeadersSet(HeadersSet(h, "host", GROQ_API_HOST),
               "authorization", "Bearer " \o e.GROQ_API_KEY.value)

\* The headers of the outbound request.
ProxyHeaders(h, e) ==
    LET withHost == HeadersSet(h, "host", GROQ_API_HOST) IN
    IF Truthy(e.GROQ_API_KEY)
    THEN HeadersSet(withHost, "authorization", "Bearer " \o e.GROQ_API_KEY.value)
    ELSE withHost

\* new Request(newUrl, {method, headers, body})
ModifiedRequest(req, e) ==
    [method |-> req.method, url |-> NewUrl(req.url),
     headers |-> ProxyHeaders(req.headers, e), body |-> req.body]

\* Mutant of ProxyFailure: 502 in place of 500.
ProxyFailureBadGateway ==
    Response(502, << <<"content-type", "application/json">> >>,
             "text", "{\"error\":\"Failed to proxy request\"}")

\* The catch block.
ProxyFailure ==
    Response(500, << <<"content-type", "application/json">> >>,
             "text", "{\"error\":\"Failed to proxy request\"}")

ProxyError(error) == Logged("Error proxying Groq request:", error)

HandleGroqProxy(req, e, throwAt, net) ==
    IF throwAt # "none"
    THEN Result(ProxyFailure, <<>>, ProxyError(throwAt), FALSE)
    ELSE LET call == Call("fetch", ModifiedRequest(req, e), net) IN
         IF net.threw
         THEN Result(ProxyFailure, <<call>>, ProxyError("fetch"), FALSE)
         ELSE Result(net.value, <<call>>, <<>>, FALSE)

-----------------------------------------------------------------------------
(* fetch: the entry dispatcher *)

\* Mutants of Route: the proxy test moved ahead of the asset test; the chat
\* branch taken for every path under /api/; the chat branch taken for every
\* method.
RouteProxyFirst(method, pathname) ==
    IF StartsWith(pathname, "/openai/v1/") THEN "proxy"
    ELSE IF pathname = "/" \/ ~StartsWith(pathname, "/api/") THEN "assets"
    ELSE IF pathname = "/api/chat"
         THEN IF method = "POST" THEN "chat" ELSE "405"
    ELSE "404"

RouteChatPrefix(method, pathname) ==
    IF pathname = "/" \/ ~StartsWith(pathname, "/api/") THEN "assets"
    ELSE IF StartsWith(pathname, "/api/")
         THEN IF method = "POST" THEN "chat" ELSE "405"
    ELSE IF StartsWith(pathname, "/openai/v1/") THEN "proxy"
    ELSE "404"

RouteAnyMethod(method, pathname) ==
    IF pathname = "/" \/ ~StartsWith(pathname, "/api/") THEN "assets"
    ELSE IF pathname = "/api/chat" THEN "chat"
    ELSE IF StartsWith(pathname, "/openai/v1/") THEN "proxy"
    ELSE "404"

\* The branch the dispatcher takes.
Route(method, pathname) ==
    IF pathname = "/" \/ ~StartsWith(pathname, "/api/") THEN "assets"
    ELSE IF pathname = "/api/chat"
         THEN IF method = "POST" THEN "chat" ELSE "405"
    ELSE IF StartsWith(pathname, "/openai/v1/") THEN "proxy"
    ELSE "404"

\* return env.ASSETS.fetch(request): its result, or its error, is the caller's.
AssetPassthrough(req, assets) ==
    Result(IF assets.threw THEN Rejected ELSE assets.value,
           <<Call("ASSETS.fetch", req, assets)>>, <<>>, FALSE)

MethodNotAllowed == Response(405, <<>>, "text", "Method not allowed")
NotFound == Response(404, <<>>, "text", "Not found")

Dispatch(req, e, assets, ai, throwAt, net) ==
    LET b == Route(req.method, req.url.pathname) IN
    CASE b = "assets" -> AssetPassthrough(req, assets)
      [] b = "chat"   -> HandleChatRequest(req, ai)
      [] b = "405"    -> Result(MethodNotAllowed, <<>>, <<>>, FALSE)
      [] b = "proxy"  -> HandleGroqProxy(req, e, throwAt, net)
      [] OTHER        -> Result(NotFound, <<>>, <<>>, FALSE)

-----------------------------------------------------------------------------
(* The Worker *)

NoRequest == [method |-> "", url |-> Url("", "", "", ""), headers |-> <<>>, body |-> NoBody]

Init ==
    /\ env \in Envs
    /\ request = NoRequest
    /\ phase = "idle"
    /\ response = NoResponse
    /\ calls = <<>>
    /\ errors = <<>>
    /\ bodyUsed = FALSE
    /\ branch = "none"

Finish(r, b) ==
    /\ phase' = "done"
    /\ response' = r.response
    /\ calls' = r.calls
    /\ errors' = r.errors
    /\ bodyUsed' = r.bodyUsed
    /\ branch' = b
    /\ UNCHANGED <<request, env>>

\* The runtime hands a request to the Worker.
Receive ==
    /\ phase = "idle"
    /\ request' \in RouterRequests
    /\ phase' = "pending"
    /\ UNCHANGED <<env, response, calls, errors, bodyUsed, branch>>

\* export default { fetch(request, env, ctx) }
Fetch ==
    /\ phase = "pending"
    /\ \E assets \in AssetOutcomes, ai \in AiOutcomes, throwAt \in ThrowPoints,
          net \in NetOutcomes :
          Finish(Dispatch(request, env, assets, ai, throwAt, net),
                 Route(request.method, request.url.pathname))

Next == Receive \/ Fetch

Spec == Init /\ [][Next]_vars

\* handleGroqProxy called on its own, as the dispatcher would call it.
ReceiveProxied ==
    /\ phase = "idle"
    /\ request' \in ProxyRequests
    /\ phase' = "pending"
    /\ UNCHANGED <<env, response, calls, errors, bodyUsed, branch>>

CallGroqProxy ==
    /\ phase = "pending"
    /\ \E throwAt \in ThrowPoints, net \in NetOutcomes :
          Finish(HandleGroqProxy(request, env, throwAt, net), "proxy")

NextProxy == ReceiveProxied \/ CallGroqProxy

SpecProxy == Init /\ [][NextProxy]_vars

-----------------------------------------------------------------------------
(* Properties of the dispatcher (Spec) *)

Done == phase = "done"
Path == request.url.pathname

\* The response of a call that returned, the rejection of one that threw.
Outcome(call) == IF call.result.threw THEN Rejected ELSE call.result.value

\* C1: every request, of any method, whose path starts with /openai/v1/ is
\* handed to handleGroqProxy (and not to asset serving, the chat handler,
\* 405 or 404).
C1_OpenAiPathReachesProxy ==
    (Done /\ StartsWith(Path, "/openai/v1/")) => branch = "proxy"

C3_UnknownPathNotFound ==
    (Done /\ request.method = "GET" /\ Path = "/unknown/path") =>
        /\ response = NotFound
        /\ calls = <<>>

\* C3 amended: a GET request to a path under /api/ other than /api/chat is
\* answered 404 "Not found" by the dispatcher, no capability invoked; GET
\* /unknown/path is passed to asset serving.
C3_UnmatchedApiPathNotFound ==
    /\ (Done /\ request.method = "GET" /\ StartsWith(Path, "/api/") /\ Path # "/api/chat") =>
            /\ response = NotFound
            /\ response.status = 404
            /\ response.body = [kind |-> "text", data |-> "Not found"]
            /\ calls = <<>>
    /\ (Done /\ request.method = "GET" /\ Path = "/unknown/path") =>
            /\ Len(calls) = 1
            /\ calls[1].op = "ASSETS.fetch"
            /\ response = Outcome(calls[1])

C3_Witness ==
    /\ Done
    /\ request.method = "GET"
    /\ Path = "/api/unknown"
    /\ response.status = 404

Outcomes == {"assets", "chat", "405", "proxy", "404"}
CapabilityOf(b) ==
    CASE b = "assets" -> {"ASSETS.fetch"}
      [] b = "chat"   -> {"AI.run"}
      [] b = "proxy"  -> {"fetch"}
      [] OTHER        -> {}

\* C4: every (method, path) takes exactly one of the five outcomes and yields
\* one response; /api/chat reaches the chat handler iff the method is POST,
\* every other method gets 405 with env.AI.run not invoked; at most one
\* external capability is invoked per request, at most once.
C4_RoutingTotalExclusive ==
    Done =>
        /\ branch \in Outcomes
        /\ response # NoResponse
        /\ Len(calls) <= 1
        /\ \A i \in DOMAIN calls : calls[i].op \in CapabilityOf(branch)
        /\ branch = "assets" => (Len(calls) = 1 /\ response = Outcome(calls[1]))
        /\ branch = "405" <=> response = MethodNotAllowed
        /\ branch = "404" <=> response = NotFound
        /\ branch = "chat" =>
              \/ response = ChatFailure
              \/ Len(calls) = 1 /\ response = ChatResponse(calls[1].result.stream)
        /\ Path = "/api/chat" =>
              /\ branch = "chat" <=> request.method = "POST"
              /\ request.method # "POST" =>
                    /\ response.status = 405
                    /\ response.body = [kind |-> "text", data |-> "Method not allowed"]
                    /\ calls = <<>>
                    /\ ~bodyUsed

C4_Witness ==
    /\ Done
    /\ Path = "/api/chat"
    /\ request.method = "DELETE"
    /\ request.body.kind = "json"
    /\ response.status = 405

-----------------------------------------------------------------------------
(* Properties of the chat handler (Spec) *)

InChat == Done /\ branch = "chat"

\* The body parses to a value whose `messages` is absent or an array.
ParsesToSequence(body) ==
    /\ body.kind = "json"
    /\ body.top # "null"
    /\ body.top = "object" => body.field \in {"absent", "array"}

\* The message sequence of such a body: [] when `messages` is absent.
Parsed(body) ==
    IF body.top = "object" /\ body.field = "array" THEN body.items ELSE <<>>

IsSystem(m) == m.t = "message" /\ m.role = "system"
AllMessages(items) == \A i \in DOMAIN items : items[i].t = "message"

DefaultSystemMessage ==
    [t |-> "message", role |-> "system",
     content |-> "You are a helpful, friendly assistant. Provide concise and accurate responses."]

\* C5: the sequence given to env.AI.run is the parsed sequence itself when
\* one of its elements, at any position, has role system, and otherwise the
\* parsed sequence with the default system message put in front; so it
\* always holds a system message and is never shorter than the input.
C5_SystemPromptEnforced ==
    (InChat /\ ParsesToSequence(request.body) /\ AllMessages(Parsed(request.body))) =>
        LET input == Parsed(request.body) IN
        /\ Len(calls) = 1
        /\ calls[1].op = "AI.run"
        /\ LET sent == calls[1].arg.messages IN
           /\ (\E i \in DOMAIN input : IsSystem(input[i])) => sent = input
           /\ (\A i \in DOMAIN input : ~IsSystem(input[i])) =>
                 /\ Len(sent) = Len(input) + 1
                 /\ sent[1] = DefaultSystemMessage
                 /\ \A i \in DOMAIN input : sent[i + 1] = input[i]
           /\ \E i \in DOMAIN sent : IsSystem(sent[i])
           /\ Len(sent) >= Len(input)

C5_Witness ==
    /\ InChat
    /\ request.body.field = "array"
    /\ Len(request.body.items) = 2
    /\ request.body.items[1].role = "user"
    /\ request.body.items[2].role = "assistant"
    /\ Len(calls) = 1
    /\ Len(calls[1].arg.messages) = 3

FailedToProcess ==
    /\ response.status = 500
    /\ response.headers = << <<"content-type", "application/json">> >>
    /\ response.body = [kind |-> "text", data |-> "{\"error\":\"Failed to process request\"}"]

RECURSIVE NullBeforeSystem(_)
NullBeforeSystem(items) ==
    /\ items # <<>>
    /\ \/ Head(items).t = "null"
       \/ ~IsSystem(Head(items)) /\ NullBeforeSystem(Tail(items))

\* C6: handleChatRequest never rejects; when parsing fails (no body, bytes
\* that are not JSON, JSON null, a `messages` that is not an array), when the
\* scan for a system message throws (a null element met before any system
\* message), or when env.AI.run throws, the response is 500 with the JSON
\* body {"error":"Failed to process request"}; when parsing fails env.AI.run
\* is not invoked.
C6_ChatFailuresAnswered500 ==
    InChat =>
        /\ response.body.kind # "rejected"
        /\ response.status \in {200, 500}
        /\ ~ParsesToSequence(request.body) => (FailedToProcess /\ calls = <<>>)
        /\ (ParsesToSequence(request.body) /\ NullBeforeSystem(Parsed(request.body))) =>
              (FailedToProcess /\ calls = <<>>)
        /\ (calls # <<>> /\ calls[1].result.threw) => FailedToProcess
        /\ errors # <<>> => FailedToProcess
        /\ response.status = 500 => Len(errors) = 1

C6_Witness ==
    /\ InChat
    /\ request.body.kind = "malformed"
    /\ response.status = 500
    /\ calls = <<>>

\* C7: with a valid body and an env.AI.run that returns a stream, the handler
\* reads the body, invokes env.AI.run exactly once with the fixed model,
\* the enforced messages, max_tokens 1024 and stream true, and answers 200
\* with content-type text/event-stream; charset=utf-8, cache-control
\* no-cache, connection keep-alive and the returned stream as the body.
C7_StreamPassedThrough ==
    (InChat /\ ParsesToSequence(request.body) /\ AllMessages(Parsed(request.body))) =>
        /\ bodyUsed
        /\ Len(calls) = 1
        /\ calls[1].op = "AI.run"
        /\ calls[1].arg.model = "@cf/meta/llama-3.1-8b-instruct-fp8"
        /\ calls[1].arg.max_tokens = 1024
        /\ calls[1].arg.stream = TRUE
        /\ \E i \in DOMAIN calls[1].arg.messages : IsSystem(calls[1].arg.messages[i])
        /\ ~calls[1].result.threw =>
              /\ response.status = 200
              /\ HeadersCount(response.headers, "content-type") = 1
              /\ HeadersGet(response.headers, "content-type") = "text/event-stream; charset=utf-8"
              /\ HeadersCount(response.headers, "cache-control") = 1
              /\ HeadersGet(response.headers, "cache-control") = "no-cache"
              /\ HeadersCount(response.headers, "connection") = 1
              /\ HeadersGet(response.headers, "connection") = "keep-alive"
              /\ Len(response.headers) = 3
              /\ response.body = [kind |-> "stream", data |-> calls[1].result.stream]
              /\ errors = <<>>

C7_Witness ==
    /\ InChat
    /\ request.body.field = "array"
    /\ Len(request.body.items) = 1
    /\ response.status = 200
    /\ response.body = [kind |-> "stream", data |-> "sse-2"]
    /\ calls[1].result.stream = "sse-2"

-----------------------------------------------------------------------------
(* Properties of the proxy handler (SpecProxy) *)

\* The outbound request was built and handed to the network fetch.
Proxied == Done /\ branch = "proxy" /\ calls # <<>>
Outbound == calls[1].arg

\* The entries of a header list under names other than the given ones.
Others(h, names) == SelectSeq(h, LAMBDA e : e[1] \notin names)

KeyConfigured == env.GROQ_API_KEY.defined /\ env.GROQ_API_KEY.value # ""

\* C8: the outbound request has the inbound URL with hostname api.groq.com,
\* protocol https: and no port (same path and query), the inbound method and
\* body, the inbound headers with host overwritten to api.groq.com and, when
\* a key is configured, authorization overwritten to "Bearer <key>"; host
\* and authorization occur at most once.
C8_OutboundRequestRewritten ==
    Proxied =>
        /\ calls[1].op = "fetch"
        /\ Outbound.url.hostname = "api.groq.com"
        /\ Outbound.url.protocol = "https:"
        /\ Outbound.url.port = ""
        /\ Outbound.url.pathname = request.url.pathname
        /\ Outbound.url.search = request.url.search
        /\ Outbound.method = request.method
        /\ Outbound.body = request.body
        /\ Others(Outbound.headers, {"host", "authorization"})
              = Others(request.headers, {"host", "authorization"})
        /\ HeadersCount(Outbound.headers, "host") = 1
        /\ HeadersGet(Outbound.headers, "host") = "api.groq.com"
        /\ HeadersCount(Outbound.headers, "authorization") <= 1
        /\ KeyConfigured =>
              /\ HeadersCount(Outbound.headers, "authorization") = 1
              /\ HeadersGet(Outbound.headers, "authorization")
                    = "Bearer " \o env.GROQ_API_KEY.value

C8_Witness ==
    /\ Proxied
    /\ KeyConfigured
    /\ request.url.protocol = "http:"
    /\ request.url.port = "8787"
    /\ request.url.search = "?stream=true"
    /\ request.method = "POST"
    /\ request.body.kind = "json"
    /\ HeadersHas(request.headers, "host")
    /\ HeadersHas(request.headers, "authorization")
    /\ HeadersGet(Outbound.headers, "authorization") = "Bearer gsk_secret"

\* C9: with no key configured the proxy leaves authorization alone: the
\* outbound request carries the caller's value if the caller gave one and
\* no authorization header if the caller gave none.
C9_AuthorizationUntouchedWithoutKey ==
    (Proxied /\ ~env.GROQ_API_KEY.defined) =>
        /\ HeadersHas(Outbound.headers, "authorization")
              <=> HeadersHas(request.headers, "authorization")
        /\ HeadersHas(request.headers, "authorization") =>
              /\ HeadersCount(Outbound.headers, "authorization") = 1
              /\ HeadersGet(Outbound.headers, "authorization")
                    = HeadersGet(request.headers, "authorization")

C9_Witness ==
    /\ Proxied
    /\ ~env.GROQ_API_KEY.defined
    /\ HeadersHas(request.headers, "authorization")
    /\ HeadersGet(Outbound.headers, "authorization") = "Bearer caller-token"

FailedToProxy ==
    /\ response.status = 500
    /\ response.headers = << <<"content-type", "application/json">> >>
    /\ response.body = [kind |-> "text", data |-> "{\"error\":\"Failed to proxy request\"}"]

\* C10: handleGroqProxy never rejects; when building the URL, building the
\* outbound request or the network call throws, the response is 500 with the
\* JSON body {"error":"Failed to proxy request"} and the call is not
\* retried; when the network call returns, its response is returned as it is.
C10_ProxyFailuresAnswered500 ==
    (Done /\ branch = "proxy") =>
        /\ response.body.kind # "rejected"
        /\ Len(calls) <= 1
        /\ Len(errors) <= 1
        /\ calls = <<>> =>
              /\ Len(errors) = 1
              /\ errors[1].error \in {"url", "request"}
              /\ FailedToProxy
        /\ (calls # <<>> /\ calls[1].result.threw) =>
              /\ Len(errors) = 1
              /\ errors[1].error = "fetch"
              /\ FailedToProxy
        /\ (calls # <<>> /\ ~calls[1].result.threw) =>
              /\ errors = <<>>
              /\ response = calls[1].result.value

C10_Witness ==
    /\ Done
    /\ branch = "proxy"
    /\ Len(calls) = 1
    /\ calls[1].result.threw
    /\ response.status = 500

====
